---------------------------- MODULE Spec2Model ----------------------------
(***************************************************************************)
(* Model of the BadgerDB buffer manager BufMgr (src/src/buffer.cpp): the   *)
(* frame descriptor table, the (file, page) -> frame hash table, the page  *)
(* pool, the clock hand, and the public operations readPage, unPinPage,    *)
(* allocPage, disposePage and flushFile, each taken as one atomic step.    *)
(* The File, BufHashTbl and BufDesc classes are collaborators whose code   *)
(* is not part of buffer.cpp; they are modelled by their interface.        *)
(***************************************************************************)
EXTENDS Integers, Sequences, FiniteSets, TLC

\* ------------------------------------------------------------- bounds
\* The pool sizes the constructor is called with.
PoolSizes == {1, 2}
\* Largest pool size of the stand-alone runs of allocBuf (SweepSpec).
MaxSweepBufs == 3
\* Cap on a frame's pin count (readPage hits stop pinning beyond it).
MaxPin == 2
\* The files and the page numbers handed to the manager.
Files == {"F", "G"}
PageNos == {1, 2}

\* ------------------------------------------------------- collaborators
\* File* NULL, as left in a descriptor by Clear.
NoFile == "NULL"
\* Page::INVALID_NUMBER, the page number of an unused Page.
INVALID_NUMBER == 0
\* A pool slot that was never filled (default-constructed Page).
EmptyPage == <<NoFile, INVALID_NUMBER>>

VARIABLES
    numBufs,     \* BufMgr::numBufs
    bufDescTable,\* BufMgr::bufDescTable : frame -> BufDesc
    hashTable,   \* BufMgr::hashTable : set of <<file, pageNo, frameNo>>
    bufPool,     \* BufMgr::bufPool : frame -> the page image held in the slot
    clockHand,   \* BufMgr::clockHand
    last         \* the last public call: its arguments, outcome and file I/O

vars == <<numBufs, bufDescTable, hashTable, bufPool, clockHand, last>>

Frames == 0 .. (numBufs - 1)

\* BufDesc::Clear
Clear(b) ==
    [valid |-> FALSE, file |-> NoFile, pageNo |-> INVALID_NUMBER,
     pinCnt |-> 0, dirty |-> FALSE, refbit |-> FALSE]

\* BufDesc::Set
Set(b, file, pageNo) ==
    [valid |-> TRUE, file |-> file, pageNo |-> pageNo,
     pinCnt |-> 1, dirty |-> FALSE, refbit |-> TRUE]

\* BufHashTbl::lookup succeeds
HasKey(ht, file, pageNo) == \E e \in ht : e[1] = file /\ e[2] = pageNo

\* BufHashTbl::lookup, the frame found
lookup(ht, file, pageNo) ==
    (CHOOSE e \in ht : e[1] = file /\ e[2] = pageNo)[3]

\* BufHashTbl::insert on an absent key
insert(ht, file, pageNo, frameNo) == ht \cup {<<file, pageNo, frameNo>>}

\* BufHashTbl::remove on a present key
remove(ht, file, pageNo) == {e \in ht : ~(e[1] = file /\ e[2] = pageNo)}

\* ------------------------------------------------------------ context
\* A call in progress: the manager's state, the exception in flight ("none"
\* while running), the file I/O done so far, and what allocBuf did.
Start(desc, ht, pool, hand) ==
    [desc |-> desc, hashTable |-> ht, bufPool |-> pool, clockHand |-> hand,
     exc |-> "none", io |-> <<>>, victim |-> {}, adv |-> 0,
     cleared |-> {}, hit |-> FALSE]

Throw(c, e) == [c EXCEPT !.exc = e]

\* The file collaborator throws on the failAt-th I/O call of the operation
\* (failAt = 0: every call succeeds).
IOFails(c, failAt) == failAt = Len(c.io) + 1

DoIO(c, kind, file, pageNo) ==
    [c EXCEPT !.io = Append(@, <<kind, file, pageNo>>)]

\* ------------------------------------------------------------ allocBuf
\* Mutant of advanceClock: the hand moves backwards.
advanceClock_back(hand) == (hand + numBufs - 1) % numBufs

\* lines 57-58
advanceClock(hand) == (hand + 1) % numBufs

\* Mutant of isPinned: the sweep does not look at the pin count.
isPinned_never(b) == FALSE

\* line 77: if (bufDescTable[clockHand].pinCnt)
isPinned(b) == b.pinCnt # 0

\* Mutant of allPinned: the sweep never gives up.
allPinned_never(pinnedCnt) == FALSE

\* line 80: if (pinnedCnt == numBufs)
allPinned(pinnedCnt) == pinnedCnt = numBufs

\* The do-while loop stops the model after SweepFuel advances with the
\* outcome "Diverged": the code itself has no such bound.
SweepFuel == 4 * numBufs + 2

RECURSIVE sweep(_, _)
sweep(c, pinnedCnt) ==
    IF c.adv >= SweepFuel THEN Throw(c, "Diverged")
    ELSE
    LET h == advanceClock(c.clockHand)
        c1 == [c EXCEPT !.clockHand = h, !.adv = @ + 1]
        found == [c1 EXCEPT !.victim = {h}]
    IN  IF ~c1.desc[h].valid THEN found
        ELSE IF c1.desc[h].refbit
             THEN sweep([c1 EXCEPT !.desc[h].refbit = FALSE], pinnedCnt)
        ELSE IF isPinned(c1.desc[h])
             THEN IF allPinned(pinnedCnt + 1)
                  THEN Throw(c1, "BufferExceeded")
                  ELSE sweep(c1, pinnedCnt + 1)
        ELSE found

\* Mutant of needsWrite: a dirty frame is recycled without a write.
needsWrite_never(b) == FALSE

\* line 94 (flushFile: line 193): if (bufDescTable[...].dirty)
needsWrite(b) == b.dirty

\* lines 91-103: write back, unmap and clear the chosen frame
evict(c, failAt) ==
    LET h == c.clockHand
        b == c.desc[h]
    IN  IF b.valid
        THEN LET w == IF needsWrite(b)
                      THEN IF IOFails(c, failAt) THEN Throw(c, "IOError")
                           ELSE DoIO(c, "writePage", b.file, c.bufPool[h][2])
                      ELSE c
             IN  IF w.exc # "none" THEN w
                 ELSE IF ~HasKey(w.hashTable, b.file, b.pageNo)
                      THEN Throw(w, "HashNotFound")
                 ELSE [w EXCEPT !.hashTable = remove(@, b.file, b.pageNo),
                                !.desc[h] = Clear(@),
                                !.cleared = @ \cup {h}]
        ELSE [c EXCEPT !.desc[h] = Clear(@),
                       !.cleared = @ \cup {h}]

\* Mutant of allocBuf: the frame under the hand is recycled before
\* BufferExceeded is thrown.
allocBuf_evictThenThrow(c, failAt) ==
    LET s == sweep(c, 0)
    IN  IF s.exc = "BufferExceeded"
        THEN Throw(evict([s EXCEPT !.exc = "none"], failAt), "BufferExceeded")
        ELSE IF s.exc # "none" THEN s ELSE evict(s, failAt)

allocBuf(c, failAt) ==
    LET s == sweep(c, 0)
    IN  IF s.exc # "none" THEN s ELSE evict(s, failAt)

\* ------------------------------------------------------------ readPage
\* Mutant of pinHit: a hit sets the refbit and forgets the pin.
pinHit_noPin(b) == [b EXCEPT !.refbit = TRUE]

\* lines 112-113
pinHit(b) == [b EXCEPT !.refbit = TRUE, !.pinCnt = @ + 1]

\* lines 121-123 (allocPage: 156-158): fill the frame, map it, Set it
\* Mutant of load: the frame is filled and mapped, Set is not called.
load_noSet(c, file, pageNo) ==
    LET f == CHOOSE x \in c.victim : TRUE
    IN  [c EXCEPT !.bufPool[f] = <<file, pageNo>>,
                  !.hashTable = insert(@, file, pageNo, f)]

load(c, file, pageNo) ==
    LET f == CHOOSE x \in c.victim : TRUE
        c1 == [c EXCEPT !.bufPool[f] = <<file, pageNo>>]
    IN  IF HasKey(c1.hashTable, file, pageNo)
        THEN Throw(c1, "HashAlreadyPresent")
        ELSE [c1 EXCEPT !.hashTable = insert(@, file, pageNo, f),
                        !.desc[f] = Set(@, file, pageNo)]

readPage(c, file, pageNo, failAt) ==
    IF HasKey(c.hashTable, file, pageNo)
    THEN LET t == lookup(c.hashTable, file, pageNo)
         IN  [c EXCEPT !.desc[t] = pinHit(@), !.hit = TRUE]
    ELSE LET a == allocBuf(c, failAt)
         IN  IF a.exc # "none" THEN a
             ELSE IF IOFails(a, failAt) THEN Throw(a, "IOError")
             ELSE load(DoIO(a, "readPage", file, pageNo), file, pageNo)

\* ----------------------------------------------------------- unPinPage
\* Mutant of notPinned: unPinPage does not check the pin count.
notPinned_never(b) == FALSE

\* line 133: if (bufDescTable[targetFrame].pinCnt == 0)
notPinned(b) == b.pinCnt = 0

\* Mutant of unPin: the dirty flag is assigned, not only set.
unPin_assignDirty(b, dirty) ==
    [b EXCEPT !.pinCnt = @ - 1, !.dirty = dirty]

\* lines 136-139
unPin(b, dirty) ==
    [b EXCEPT !.pinCnt = @ - 1, !.dirty = IF dirty THEN TRUE ELSE @]

unPinPage(c, file, pageNo, dirty) ==
    IF HasKey(c.hashTable, file, pageNo)
    THEN LET t == lookup(c.hashTable, file, pageNo)
         IN  IF notPinned(c.desc[t])
             THEN Throw([c EXCEPT !.hit = TRUE], "PageNotPinned")
             ELSE [c EXCEPT !.desc[t] = unPin(@, dirty), !.hit = TRUE]
    ELSE c

\* ----------------------------------------------------------- allocPage
allocPage(c, file, newPageNo, failAt) ==
    IF IOFails(c, failAt) THEN Throw(c, "IOError")
    ELSE LET n == DoIO(c, "allocatePage", file, newPageNo)
             a == allocBuf(n, failAt)
         IN  IF a.exc # "none" THEN a ELSE load(a, file, newPageNo)

\* --------------------------------------------------------- disposePage
\* Mutant of unload: the descriptor is cleared, the page-table entry stays.
unload_keepEntry(c, file, pageNo) ==
    IF HasKey(c.hashTable, file, pageNo)
    THEN LET f == lookup(c.hashTable, file, pageNo)
         IN  [c EXCEPT !.desc[f] = Clear(@),
                       !.cleared = @ \cup {f},
                       !.hit = TRUE]
    ELSE c

\* Mutant of unload: the page-table entry is removed, the descriptor is
\* not cleared.
unload_removeOnly(c, file, pageNo) ==
    IF HasKey(c.hashTable, file, pageNo)
    THEN [c EXCEPT !.hashTable = remove(@, file, pageNo), !.hit = TRUE]
    ELSE c

\* Mutant of unload: the frame is marked invalid, the other descriptor
\* fields are left as they were.
unload_validOnly(c, file, pageNo) ==
    IF HasKey(c.hashTable, file, pageNo)
    THEN LET f == lookup(c.hashTable, file, pageNo)
         IN  [c EXCEPT !.desc[f].valid = FALSE,
                       !.hashTable = remove(@, file, pageNo),
                       !.cleared = @ \cup {f}, !.hit = TRUE]
    ELSE c

\* lines 166-177
unload(c, file, pageNo) ==
    IF HasKey(c.hashTable, file, pageNo)
    THEN LET f == lookup(c.hashTable, file, pageNo)
         IN  [c EXCEPT !.desc[f] = Clear(@),
                       !.cleared = @ \cup {f},
                       !.hashTable = remove(@, file, pageNo),
                       !.hit = TRUE]
    ELSE c

\* Mutant of disposePage: the page is deleted from the file only when it
\* was in the pool.
disposePage_deleteIfResident(c, file, pageNo, failAt) ==
    LET u == unload(c, file, pageNo)
    IN  IF ~u.hit THEN u
        ELSE IF IOFails(u, failAt) THEN Throw(u, "IOError")
        ELSE DoIO(u, "deletePage", file, pageNo)

disposePage(c, file, pageNo, failAt) ==
    LET u == unload(c, file, pageNo)
    IN  IF IOFails(u, failAt) THEN Throw(u, "IOError")
        ELSE DoIO(u, "deletePage", file, pageNo)

\* ----------------------------------------------------------- flushFile
\* Mutant of flushFrame: the page is written and the frame stays mapped.
flushFrame_keepEntry(c, i, file, failAt) ==
    LET b == c.desc[i]
    IN  IF b.pinCnt # 0 THEN Throw(c, "PagePinned")
        ELSE IF ~b.valid THEN Throw(c, "BadBuffer")
        ELSE IF needsWrite(b)
             THEN IF IOFails(c, failAt) THEN Throw(c, "IOError")
                  ELSE DoIO([c EXCEPT !.desc[i].dirty = FALSE],
                            "writePage", file, c.bufPool[i][2])
             ELSE c

\* Mutant of flushFrame: the frame is marked invalid, its file tag stays.
flushFrame_validOnly(c, i, file, failAt) ==
    LET b == c.desc[i]
    IN  IF b.pinCnt # 0 THEN Throw(c, "PagePinned")
        ELSE IF ~b.valid THEN Throw(c, "BadBuffer")
        ELSE LET w == IF needsWrite(b)
                      THEN IF IOFails(c, failAt) THEN Throw(c, "IOError")
                           ELSE DoIO(c, "writePage", file, c.bufPool[i][2])
                      ELSE c
             IN  IF w.exc # "none" THEN w
                 ELSE [w EXCEPT !.hashTable = remove(@, file, b.pageNo),
                                !.desc[i].valid = FALSE,
                                !.desc[i].dirty = FALSE,
                                !.cleared = @ \cup {i}]

\* lines 186-197: one frame of the file
flushFrame(c, i, file, failAt) ==
    LET b == c.desc[i]
    IN  IF b.pinCnt # 0 THEN Throw(c, "PagePinned")
        ELSE IF ~b.valid THEN Throw(c, "BadBuffer")
        ELSE LET w == IF needsWrite(b)
                      THEN IF IOFails(c, failAt) THEN Throw(c, "IOError")
                           ELSE DoIO(c, "writePage", file, c.bufPool[i][2])
                      ELSE c
             IN  IF w.exc # "none" THEN w
                 ELSE IF ~HasKey(w.hashTable, file, b.pageNo)
                      THEN Throw(w, "HashNotFound")
                 ELSE [w EXCEPT !.hashTable = remove(@, file, b.pageNo),
                                !.desc[i] = Clear(@),
                                !.cleared = @ \cup {i}]

RECURSIVE flushFrom(_, _, _, _)
flushFrom(c, i, file, failAt) ==
    IF i >= numBufs \/ c.exc # "none" THEN c
    ELSE IF c.desc[i].file = file
         THEN flushFrom(flushFrame(c, i, file, failAt), i + 1, file, failAt)
         ELSE flushFrom(c, i + 1, file, failAt)

\* Mutant of flushFile: the pin counts of the file's frames are all checked
\* before the first frame is flushed.
flushFile_checkFirst(c, file, failAt) ==
    IF \E i \in Frames : c.desc[i].file = file /\ c.desc[i].pinCnt # 0
    THEN Throw(c, "PagePinned")
    ELSE flushFrom(c, 0, file, failAt)

flushFile(c, file, failAt) == flushFrom(c, 0, file, failAt)

\* ------------------------------------------------------------ ~BufMgr
\* Mutant of mustFlush: a page left pinned is not written at shutdown.
mustFlush_unpinnedOnly(b) == b.valid /\ b.dirty /\ b.pinCnt = 0

\* line 42: if (bufDescTable[i].valid && bufDescTable[i].dirty)
mustFlush(b) == b.valid /\ b.dirty

\* lines 41-47: the write-back loop of the destructor, from frame i on
RECURSIVE flushAll(_, _, _)
flushAll(c, i, failAt) ==
    IF i >= numBufs \/ c.exc # "none" THEN c
    ELSE IF mustFlush(c.desc[i])
         THEN IF IOFails(c, failAt) THEN Throw(c, "IOError")
              ELSE flushAll(DoIO(c, "writePage", c.desc[i].file, c.bufPool[i][2]),
                            i + 1, failAt)
         ELSE flushAll(c, i + 1, failAt)

destructor(c, failAt) == flushAll(c, 0, failAt)

\* ------------------------------------------------------- state machine
Now == Start(bufDescTable, hashTable, bufPool, clockHand)

NoCall ==
    [op |-> "new", file |-> NoFile, pageNo |-> INVALID_NUMBER, dirty |-> FALSE,
     exc |-> "none", io |-> <<>>, victim |-> {}, adv |-> 0, cleared |-> {},
     hit |-> FALSE]

\* BufMgr::BufMgr(bufs)
Init ==
    /\ numBufs \in PoolSizes
    /\ bufDescTable = [i \in 0 .. (numBufs - 1) |-> Clear(0)]
    /\ bufPool = [i \in 0 .. (numBufs - 1) |-> EmptyPage]
    /\ hashTable = {}
    /\ clockHand = numBufs - 1
    /\ last = NoCall

\* The manager has not been destroyed: no member function is called on a
\* destroyed manager.
Alive == last.op # "~BufMgr"

\* The call returns (or throws): the manager's new state and the record of
\* the call.  A failure index is an input only of calls whose I/O reaches it.
Finish(r, op, file, pageNo, dirty, failAt) ==
    /\ Alive
    /\ failAt # 0 => r.exc = "IOError"
    /\ bufDescTable' = r.desc
    /\ hashTable' = r.hashTable
    /\ bufPool' = r.bufPool
    /\ clockHand' = r.clockHand
    /\ last' = [op |-> op, file |-> file, pageNo |-> pageNo, dirty |-> dirty,
                exc |-> r.exc, io |-> r.io, victim |-> r.victim, adv |-> r.adv,
                cleared |-> r.cleared, hit |-> r.hit]
    /\ UNCHANGED numBufs

\* The failure indices that reach an I/O call, for a call that does the I/O
\* calls io when none of them throws.
FailAts(io) == 0 .. Len(io)

ReadPage ==
    \E file \in Files, pageNo \in PageNos :
      \E r0 \in {readPage(Now, file, pageNo, 0)} : \E failAt \in FailAts(r0.io) :
        /\ HasKey(hashTable, file, pageNo) =>
              bufDescTable[lookup(hashTable, file, pageNo)].pinCnt < MaxPin
        /\ \E r \in {IF failAt = 0 THEN r0 ELSE readPage(Now, file, pageNo, failAt)} :
              Finish(r, "readPage", file, pageNo, FALSE, failAt)

UnPinPage ==
    \E file \in Files, pageNo \in PageNos, dirty \in BOOLEAN :
      \E r \in {unPinPage(Now, file, pageNo, dirty)} :
        Finish(r, "unPinPage", file, pageNo, dirty, 0)

\* File::allocatePage hands out a page number not in use in the file; the
\* pages of the file that are in the pool are in use.
AllocPage ==
    \E file \in Files, newPageNo \in PageNos :
      /\ \A i \in Frames : ~(bufDescTable[i].valid /\ bufDescTable[i].file = file
                             /\ bufDescTable[i].pageNo = newPageNo)
      /\ \E r0 \in {allocPage(Now, file, newPageNo, 0)} : \E failAt \in FailAts(r0.io) :
            \E r \in {IF failAt = 0 THEN r0 ELSE allocPage(Now, file, newPageNo, failAt)} :
              Finish(r, "allocPage", file, newPageNo, FALSE, failAt)

DisposePage ==
    \E file \in Files, pageNo \in PageNos :
      \E r0 \in {disposePage(Now, file, pageNo, 0)} : \E failAt \in FailAts(r0.io) :
        \E r \in {IF failAt = 0 THEN r0 ELSE disposePage(Now, file, pageNo, failAt)} :
          Finish(r, "disposePage", file, pageNo, FALSE, failAt)

FlushFile ==
    \E file \in Files :
      \E r0 \in {flushFile(Now, file, 0)} : \E failAt \in FailAts(r0.io) :
        \E r \in {IF failAt = 0 THEN r0 ELSE flushFile(Now, file, failAt)} :
          Finish(r, "flushFile", file, INVALID_NUMBER, FALSE, failAt)

\* BufMgr::~BufMgr: the dirty pages are written; the tables and the pool are
\* freed and no call follows.
Destroy ==
    \E r0 \in {destructor(Now, 0)} : \E failAt \in FailAts(r0.io) :
      \E r \in {IF failAt = 0 THEN r0 ELSE destructor(Now, failAt)} :
        Finish(r, "~BufMgr", NoFile, INVALID_NUMBER, FALSE, failAt)

Next == ReadPage \/ UnPinPage \/ AllocPage \/ DisposePage \/ FlushFile \/ Destroy

Spec == Init /\ [][Next]_vars

\* ------------------------------------------- allocBuf run on its own
\* A descriptor table of any well-formed contents: every frame is empty or
\* holds a page of its own with any pin count, dirty flag and refbit.
SweepDescs(n) ==
    [0 .. (n - 1) ->
        {Clear(0)} \cup
        [valid : {TRUE}, file : {"F"}, pageNo : {INVALID_NUMBER},
         pinCnt : 0 .. MaxPin, dirty : BOOLEAN, refbit : BOOLEAN]]

SweepInit ==
    /\ numBufs \in 1 .. MaxSweepBufs
    /\ \E d \in SweepDescs(numBufs) :
          bufDescTable = [i \in 0 .. (numBufs - 1) |->
                             IF d[i].valid THEN [d[i] EXCEPT !.pageNo = i + 1]
                             ELSE d[i]]
    /\ hashTable = {<<bufDescTable[i].file, bufDescTable[i].pageNo, i>> :
                       i \in {j \in 0 .. (numBufs - 1) : bufDescTable[j].valid}}
    /\ bufPool = [i \in 0 .. (numBufs - 1) |->
                     <<bufDescTable[i].file, bufDescTable[i].pageNo>>]
    /\ clockHand \in 0 .. (numBufs - 1)
    /\ last = NoCall

\* One call of allocBuf on the table drawn by SweepInit.
AllocBufCall ==
    /\ last.op = "new"
    /\ \E r \in {allocBuf(Now, 0)} :
          Finish(r, "allocBuf", NoFile, INVALID_NUMBER, FALSE, 0)

SweepSpec == SweepInit /\ [][AllocBufCall]_vars

\* ---------------------------------------------------------- properties
Pinned(i) == bufDescTable[i].valid /\ bufDescTable[i].pinCnt > 0

\* The number of file I/O calls of the last call that equal ev.
Count(io, ev) == Cardinality({n \in 1 .. Len(io) : io[n] = ev})

Writes(io) == {n \in 1 .. Len(io) : io[n][1] = "writePage"}

\* Frame i holds the same page after the step as before it.
Kept(i) ==
    /\ bufDescTable'[i].valid
    /\ bufDescTable'[i].file = bufDescTable[i].file
    /\ bufDescTable'[i].pageNo = bufDescTable[i].pageNo
    /\ <<bufDescTable[i].file, bufDescTable[i].pageNo, i>> \in hashTable'

\* C1: BufferExceeded is raised only when every frame is pinned: a call that
\* raises it was made in a state in which every frame is valid with pinCnt > 0.
C1_ExceededOnlyIfAllPinned ==
    [][last'.exc = "BufferExceeded" => \A i \in Frames : Pinned(i)]_vars

\* C2: a pinned page is never evicted: the frame allocBuf selects is invalid
\* or has pinCnt = 0, and a readPage or allocPage leaves every pinned page in
\* its frame, in the page table, with its bytes.
C2_PinnedNeverEvicted ==
    [][last'.op \in {"readPage", "allocPage"} =>
          /\ \A f \in last'.victim :
                ~bufDescTable[f].valid \/ bufDescTable[f].pinCnt = 0
          /\ \A i \in Frames :
                Pinned(i) => Kept(i) /\ bufPool'[i] = bufPool[i]]_vars

\* C2 witness: a sweep has passed over a pinned frame and recycled another.
C2_Witness ==
    /\ last.op = "readPage" /\ last.exc = "none"
    /\ last.victim # {} /\ last.adv > 1
    /\ \E i \in Frames : i \notin last.victim /\ Pinned(i)

\* C3: dirty pages are written back before their frame is reused: allocBuf
\* and flushFile write the page of every valid dirty frame they clear exactly
\* once and write nothing else, and a dirty page whose write did not happen
\* stays in its frame and in the page table.
C3_DirtyWrittenBack ==
    [][last'.op \in {"readPage", "allocPage", "flushFile", "unPinPage"} =>
          /\ \A i \in last'.cleared :
                bufDescTable[i].valid =>
                   Count(last'.io, <<"writePage", bufDescTable[i].file,
                                     bufDescTable[i].pageNo>>)
                      = IF bufDescTable[i].dirty THEN 1 ELSE 0
          /\ Cardinality(Writes(last'.io))
                = Cardinality({i \in last'.cleared :
                                  bufDescTable[i].valid /\ bufDescTable[i].dirty})
          /\ \A i \in Frames :
                bufDescTable[i].valid /\ bufDescTable[i].dirty =>
                   \/ Kept(i) /\ bufDescTable'[i].dirty
                   \/ Count(last'.io, <<"writePage", bufDescTable[i].file,
                                        bufDescTable[i].pageNo>>) = 1]_vars

\* C3 witness: a readPage miss has evicted a dirty page and written it.
C3_Witness ==
    /\ last.op = "readPage" /\ last.exc = "none"
    /\ Writes(last.io) # {}

\* C4: page table and frame table agree after every call, also one that
\* raised: every valid frame has exactly one entry, every entry names a
\* valid frame of that identity, and no page is in two frames.
C4_TablesConsistent ==
    /\ \A i \in Frames :
          bufDescTable[i].valid =>
             {e \in hashTable : e[1] = bufDescTable[i].file
                                /\ e[2] = bufDescTable[i].pageNo}
                = {<<bufDescTable[i].file, bufDescTable[i].pageNo, i>>}
    /\ \A e \in hashTable :
          /\ e[3] \in Frames
          /\ bufDescTable[e[3]].valid
          /\ bufDescTable[e[3]].file = e[1]
          /\ bufDescTable[e[3]].pageNo = e[2]
    /\ \A i, j \in Frames :
          i # j /\ bufDescTable[i].valid /\ bufDescTable[j].valid =>
             <<bufDescTable[i].file, bufDescTable[i].pageNo>>
                # <<bufDescTable[j].file, bufDescTable[j].pageNo>>

\* C4 witness: a call has failed on file I/O after clearing a frame, with
\* another page still in the pool.
C4_Witness ==
    /\ last.exc = "IOError" /\ last.cleared # {}
    /\ hashTable # {}

\* C5: allocBuf terminates within 2 * numBufs advances of the clock hand,
\* and raises BufferExceeded when every frame is valid and pinned.
C5_SweepTerminates ==
    [][last'.op = "allocBuf" =>
          /\ last'.exc \in {"none", "BufferExceeded"}
          /\ last'.adv <= 2 * numBufs
          /\ (\A i \in Frames : Pinned(i)) => last'.exc = "BufferExceeded"]_vars

\* C5 witness: every frame pinned with its refbit set, so the call took
\* 2 * numBufs advances before it raised.
C5_Witness ==
    /\ last.op = "allocBuf" /\ last.exc = "BufferExceeded"
    /\ numBufs >= 2 /\ last.adv = 2 * numBufs

\* C6 as stated: a readPage that raises BufferExceeded changes nothing.
C6_ExceededChangesNothing ==
    [][last'.op = "readPage" /\ last'.exc = "BufferExceeded" =>
          /\ bufDescTable' = bufDescTable
          /\ hashTable' = hashTable
          /\ bufPool' = bufPool
          /\ clockHand' = clockHand]_vars

\* C6 amended: a readPage that raises BufferExceeded leaves every
\* descriptor's valid, file, pageNo, pinCnt and dirty, the page table and the
\* pool as they were and does no file I/O; refbits may have been cleared
\* (none is set) and the clock hand may have moved.
C6_ExceededKeepsPages ==
    [][last'.op = "readPage" /\ last'.exc = "BufferExceeded" =>
          /\ \A i \in Frames :
                \/ bufDescTable'[i] = bufDescTable[i]
                \/ bufDescTable'[i] = [bufDescTable[i] EXCEPT !.refbit = FALSE]
          /\ hashTable' = hashTable
          /\ bufPool' = bufPool
          /\ last'.io = <<>>]_vars

\* C6 witness: a readPage has raised BufferExceeded with every frame pinned.
C6_Witness ==
    /\ last.op = "readPage" /\ last.exc = "BufferExceeded"
    /\ \A i \in Frames : Pinned(i)

\* C7: no pinned frame is ever cleared: Clear is applied only to frames
\* with pinCnt = 0.
C7_ClearOnlyUnpinned ==
    [][\A i \in last'.cleared : bufDescTable[i].pinCnt = 0]_vars

\* The frame of the page the last call names, in the state before it.
Target == lookup(hashTable, last'.file, last'.pageNo)

Untouched == /\ hashTable' = hashTable
             /\ bufPool' = bufPool
             /\ clockHand' = clockHand
             /\ last'.io = <<>>

\* C8: unPinPage changes state only when the page is resident and pinned:
\* absent, it returns and changes nothing; resident with pinCnt = 0, it
\* raises PageNotPinned and changes nothing; otherwise it takes one from
\* that frame's pinCnt (and may set its dirty flag) and touches nothing else.
\* No pin count is ever negative.
C8_UnPinEffect ==
    [][last'.op = "unPinPage" =>
          /\ Untouched
          /\ \A i \in Frames : bufDescTable'[i].pinCnt >= 0
          /\ IF ~HasKey(hashTable, last'.file, last'.pageNo)
             THEN last'.exc = "none" /\ bufDescTable' = bufDescTable
             ELSE IF bufDescTable[Target].pinCnt = 0
             THEN last'.exc = "PageNotPinned" /\ bufDescTable' = bufDescTable
             ELSE /\ last'.exc = "none"
                  /\ bufDescTable' =
                        [bufDescTable EXCEPT
                            ![Target].pinCnt = @ - 1,
                            ![Target].dirty = @ \/ last'.dirty]]_vars

\* C8 witness: unPinPage(..., dirty = true) has raised PageNotPinned on a
\* resident clean page.
C8_Witness ==
    /\ last.op = "unPinPage" /\ last.exc = "PageNotPinned" /\ last.dirty
    /\ \E i \in Frames :
          /\ bufDescTable[i].valid /\ ~bufDescTable[i].dirty
          /\ bufDescTable[i].file = last.file
          /\ bufDescTable[i].pageNo = last.pageNo

\* C9: dirty stickiness: a successful unPinPage(..., dirty = true) sets the
\* frame's dirty flag, and a dirty flag stays set through every call that
\* does not clear the frame.
C9_DirtySticky ==
    [][/\ \A i \in Frames :
             bufDescTable[i].valid /\ bufDescTable[i].dirty
             /\ i \notin last'.cleared => bufDescTable'[i].dirty
       /\ last'.op = "unPinPage" /\ last'.exc = "none" /\ last'.hit
          /\ last'.dirty => bufDescTable'[Target].dirty]_vars

\* C9 witness: unPinPage(..., dirty = false) has succeeded on a dirty page,
\* which is still dirty.
C9_Witness ==
    /\ last.op = "unPinPage" /\ last.exc = "none" /\ last.hit /\ ~last.dirty
    /\ \E i \in Frames :
          /\ bufDescTable[i].valid /\ bufDescTable[i].dirty
          /\ bufDescTable[i].file = last.file
          /\ bufDescTable[i].pageNo = last.pageNo

\* C10: read idempotence under pinning: for a resident page, readPage then
\* unPinPage(..., false) does no file I/O and gives back the state before
\* the readPage, but that the frame's refbit is then set; after the readPage
\* alone the frame's pinCnt is one higher.
C10_ReadUnpinIdentity ==
    \A file \in Files, pageNo \in PageNos :
        HasKey(hashTable, file, pageNo) =>
           LET t == lookup(hashTable, file, pageNo)
               r == readPage(Now, file, pageNo, 0)
               u == unPinPage(Start(r.desc, r.hashTable, r.bufPool, r.clockHand),
                              file, pageNo, FALSE)
           IN  /\ r.exc = "none" /\ r.io = <<>>
               /\ r.desc[t].pinCnt = bufDescTable[t].pinCnt + 1
               /\ u.exc = "none" /\ u.io = <<>>
               /\ u.hashTable = hashTable
               /\ u.bufPool = bufPool
               /\ u.clockHand = clockHand
               /\ u.desc = [bufDescTable EXCEPT ![t].refbit = TRUE]

\* C10 witness: a second readPage of a resident page has raised its pin
\* count to two.
C10_Witness ==
    /\ last.op = "readPage" /\ last.hit
    /\ \E i \in Frames :
          /\ bufDescTable[i].valid /\ bufDescTable[i].pinCnt = 2
          /\ bufDescTable[i].file = last.file
          /\ bufDescTable[i].pageNo = last.pageNo

\* The manager's state after the step, as the start of a next call.
After == Start(bufDescTable', hashTable', bufPool', clockHand')

\* Frame i holds a page of the file in the state before the step.
Holds(i, file) == bufDescTable[i].valid /\ bufDescTable[i].file = file

WriteOf(i) == <<"writePage", bufDescTable[i].file, bufDescTable[i].pageNo>>

\* C11: flush-then-read: after flushFile(f) returns normally no frame holds
\* a page of f and the page table has no entry of f, every page of f that
\* was dirty has been written exactly once, and a readPage(f, p) that follows
\* for a page p resident before the flush is a miss that reads p from the
\* file once.
C11_FlushThenRead ==
    [][last'.op = "flushFile" /\ last'.exc = "none" =>
          /\ \A i \in Frames :
                ~(bufDescTable'[i].valid /\ bufDescTable'[i].file = last'.file)
          /\ \A e \in hashTable' : e[1] # last'.file
          /\ \A i \in Frames :
                Holds(i, last'.file) /\ bufDescTable[i].dirty =>
                   Count(last'.io, WriteOf(i)) = 1
          /\ \A pageNo \in PageNos :
                HasKey(hashTable, last'.file, pageNo) =>
                   LET r == readPage(After, last'.file, pageNo, 0)
                   IN  /\ ~r.hit /\ r.exc = "none"
                       /\ Count(r.io, <<"readPage", last'.file, pageNo>>) = 1]_vars

\* C11 witness: a flushFile has returned after writing a dirty page and
\* clearing its frame.
C11_Witness ==
    /\ last.op = "flushFile" /\ last.exc = "none"
    /\ last.cleared # {} /\ Writes(last.io) # {}

\* The frames of the file flushFile is called with that are pinned.
PinnedOf(file) == {i \in Frames : bufDescTable[i].file = file
                                  /\ bufDescTable[i].pinCnt > 0}

Lowest(S) == CHOOSE i \in S : \A j \in S : i <= j

\* C12: flushFile(f) whose file I/O succeeds raises PagePinned exactly when
\* a frame of f is pinned; it then has written back (if dirty), unmapped and
\* cleared every frame of f below the first pinned one, and the pinned frame
\* and all frames above it are unchanged.
C12_FlushPinnedPartial ==
    [][last'.op = "flushFile" =>
          /\ last'.exc = "PagePinned" => PinnedOf(last'.file) # {}
          /\ PinnedOf(last'.file) # {} => last'.exc \in {"PagePinned", "IOError"}
          /\ last'.exc = "PagePinned" =>
                LET k == Lowest(PinnedOf(last'.file))
                IN  /\ \A i \in Frames :
                          IF i < k /\ Holds(i, last'.file)
                          THEN /\ i \in last'.cleared
                               /\ bufDescTable'[i] = Clear(0)
                               /\ ~HasKey(hashTable', last'.file,
                                          bufDescTable[i].pageNo)
                               /\ Count(last'.io, WriteOf(i))
                                     = IF bufDescTable[i].dirty THEN 1 ELSE 0
                          ELSE /\ bufDescTable'[i] = bufDescTable[i]
                               /\ bufDescTable[i].valid => Kept(i)
                    /\ bufPool' = bufPool
                    /\ clockHand' = clockHand]_vars

\* C12 witness: flushFile has raised PagePinned after writing and clearing
\* a lower frame of the file.
C12_Witness ==
    /\ last.op = "flushFile" /\ last.exc = "PagePinned"
    /\ last.cleared # {} /\ Writes(last.io) # {}

\* C13: HashNotFound never escapes the manager: no call ends with it, so the
\* unguarded hashTable->remove of allocBuf and of flushFile finds its key.
C13_NoHashNotFound == last.exc # "HashNotFound"

\* C13 witness: an allocPage has evicted a valid (dirty) page through
\* allocBuf's remove.
C13_Witness ==
    /\ last.op = "allocPage" /\ last.exc = "none"
    /\ Writes(last.io) # {}

\* What disposePage(f, p) does to the pool and the file: one deletePage (the
\* call that throws is the one call), no writePage; a resident page's frame
\* is cleared and unmapped whatever its dirty flag and pin count, nothing
\* else changes.
DisposeEffect ==
    /\ last'.exc \in {"none", "IOError"}
    /\ last'.io = IF last'.exc = "none"
                  THEN <<<<"deletePage", last'.file, last'.pageNo>>>>
                  ELSE <<>>
    /\ IF HasKey(hashTable, last'.file, last'.pageNo)
       THEN /\ bufDescTable' = [bufDescTable EXCEPT ![Target] = Clear(0)]
            /\ hashTable' = hashTable \ {<<last'.file, last'.pageNo, Target>>}
       ELSE /\ bufDescTable' = bufDescTable
            /\ hashTable' = hashTable
    /\ bufPool' = bufPool
    /\ clockHand' = clockHand

\* readPage(f, p) called right after the step.
ReadNext == readPage(After, last'.file, last'.pageNo, 0)

C15_ShutdownFlush ==
    [][last'.op = "~BufMgr" =>
          /\ \A n \in Writes(last'.io) :
                \E i \in Frames : /\ bufDescTable[i].valid /\ bufDescTable[i].dirty
                                  /\ last'.io[n] = WriteOf(i)
          /\ \A i \in Frames :
                Count(last'.io, WriteOf(i)) <= 1
          /\ Len(last'.io) = Cardinality(Writes(last'.io))
          /\ last'.exc \in {"none", "IOError"}
          /\ last'.exc = "none" =>
                /\ \A i \in Frames :
                      Count(last'.io, WriteOf(i))
                         = IF bufDescTable[i].valid /\ bufDescTable[i].dirty
                           THEN 1 ELSE 0
                /\ Len(last'.io)
                      = Cardinality({i \in Frames : bufDescTable[i].valid
                                                   /\ bufDescTable[i].dirty})]_vars

\* C15 witness: the manager was destroyed with a dirty page still pinned and
\* a clean frame; the pinned page was written.
C15_Witness ==
    /\ last.op = "~BufMgr" /\ last.exc = "none"
    /\ \E i \in Frames :
          /\ bufDescTable[i].valid /\ bufDescTable[i].dirty /\ bufDescTable[i].pinCnt > 0
          /\ Count(last.io, <<"writePage", bufDescTable[i].file,
                              bufDescTable[i].pageNo>>) = 1
    /\ \E i \in Frames : ~bufDescTable[i].dirty

\* C16: descriptor and cursor well-formedness: after construction and after
\* every public operation every frame with valid = FALSE has pinCnt = 0,
\* dirty = FALSE, refbit = FALSE and no file, and 0 <= clockHand < numBufs.
C16_WellFormed ==
    /\ \A i \in Frames :
          ~bufDescTable[i].valid =>
             /\ bufDescTable[i].pinCnt = 0
             /\ ~bufDescTable[i].dirty
             /\ ~bufDescTable[i].refbit
             /\ bufDescTable[i].file = NoFile
    /\ numBufs >= 1
    /\ 0 <= clockHand /\ clockHand < numBufs

\* C16 witness: a frame that held a pinned dirty page is invalid again, and
\* the hand has wrapped to frame 0 of a pool of two.
C16_Witness ==
    /\ last.op = "disposePage" /\ last.hit
    /\ numBufs = 2 /\ clockHand = 0
    /\ \E i \in last.cleared :
          ~bufDescTable[i].valid /\ bufPool[i] = <<last.file, last.pageNo>>
    /\ \E i \in Frames : bufDescTable[i].valid /\ bufDescTable[i].dirty

\* The frame under the hand at the k-th advance of a call, counted from the
\* hand before the call.
Visit(k) == (clockHand + k) % numBufs

\* The frames the hand has passed over when the call ends: all the visited
\* ones but the returned one.
PassedOver == {Visit(k) : k \in 1 .. last'.adv} \ last'.victim

\* The refbit of the frame under the hand at the k-th advance: the one it had
\* before the call on the first visit, clear on a second visit.
RefbitAt(k) == bufDescTable[Visit(k)].refbit /\ k <= numBufs

\* The frame under the hand at the k-th advance can be taken: it is invalid,
\* or its refbit is clear and it is not pinned.
Selectable(k) ==
    \/ ~bufDescTable[Visit(k)].valid
    \/ ~RefbitAt(k) /\ bufDescTable[Visit(k)].pinCnt = 0

\* C17: clock sweep selection order: the frame allocBuf returns is the first
\* one, in circular order from clockHand + 1, that is invalid or has refbit
\* clear and pinCnt = 0 when the hand is on it; the frames passed over have
\* their refbit cleared and are otherwise unchanged, the frames not visited
\* are unchanged, the hand ends on the returned frame; so a frame whose
\* refbit was set is not taken while an invalid frame or an unpinned frame
\* with refbit clear exists.
C17_SweepOrder ==
    [][last'.op = "allocBuf" =>
          /\ last'.adv >= 1
          /\ clockHand' = Visit(last'.adv)
          /\ \A k \in 1 .. (last'.adv - 1) : ~Selectable(k)
          /\ \A i \in PassedOver :
                bufDescTable'[i] = [bufDescTable[i] EXCEPT !.refbit = FALSE]
          /\ \A i \in Frames \ (PassedOver \cup last'.victim) :
                bufDescTable'[i] = bufDescTable[i]
          /\ last'.exc = "none" =>
                /\ last'.victim = {clockHand'}
                /\ Selectable(last'.adv)
                /\ last'.cleared = last'.victim
                /\ \A v \in last'.victim :
                      bufDescTable[v].valid /\ bufDescTable[v].refbit =>
                         \A g \in Frames \ {v} :
                            /\ bufDescTable[g].valid
                            /\ bufDescTable[g].refbit \/ bufDescTable[g].pinCnt > 0
          /\ last'.exc # "none" => last'.victim = {} /\ ~Selectable(last'.adv)]_vars

\* C17 witness: the hand went round more than once, over a pinned frame, and
\* took a frame on its second visit, after clearing refbits on the first.
C17_Witness ==
    /\ last.op = "allocBuf" /\ last.exc = "none"
    /\ last.adv > numBufs /\ numBufs >= 2
    /\ last.victim = {clockHand}
    /\ \E i \in Frames \ last.victim : bufDescTable[i].valid /\ bufDescTable[i].pinCnt > 0

\* The pages in the pool: before the step, and after it.
Resident == {<<bufDescTable[i].file, bufDescTable[i].pageNo>> :
                i \in {j \in Frames : bufDescTable[j].valid}}

ResidentAfter == {<<bufDescTable'[i].file, bufDescTable'[i].pageNo>> :
                     i \in {j \in Frames : bufDescTable'[j].valid}}

\* The I/O calls of the last call other than write-backs.
NonWrites(io) == {n \in 1 .. Len(io) : io[n][1] # "writePage"}

\* C18: load postcondition: after a successful readPage miss on (f, p) or a
\* successful allocPage(f) returning p exactly one frame holds (f, p), the
\* one allocBuf returned, with valid, pinCnt = 1, dirty clear, refbit set; a
\* readPage miss issues exactly one file.readPage(p), an allocPage exactly
\* one file.allocatePage; at most one other page, the evicted one, has left
\* the pool.
C18_LoadPostcondition ==
    [][/\ last'.op \in {"readPage", "allocPage"}
       /\ last'.exc = "none" /\ ~last'.hit
       =>
          /\ {i \in Frames : /\ bufDescTable'[i].valid
                             /\ bufDescTable'[i].file = last'.file
                             /\ bufDescTable'[i].pageNo = last'.pageNo}
                = last'.victim
          /\ Cardinality(last'.victim) = 1
          /\ \A v \in last'.victim :
                /\ bufDescTable'[v] = [valid |-> TRUE, file |-> last'.file,
                                       pageNo |-> last'.pageNo, pinCnt |-> 1,
                                       dirty |-> FALSE, refbit |-> TRUE]
                /\ lookup(hashTable', last'.file, last'.pageNo) = v
                /\ bufPool'[v] = <<last'.file, last'.pageNo>>
                /\ Resident \ ResidentAfter
                      = IF bufDescTable[v].valid
                        THEN {<<bufDescTable[v].file, bufDescTable[v].pageNo>>}
                        ELSE {}
          /\ Cardinality(Resident \ ResidentAfter) <= 1
          /\ ResidentAfter \ Resident = {<<last'.file, last'.pageNo>>}
          /\ Cardinality(NonWrites(last'.io)) = 1
          /\ Count(last'.io, <<IF last'.op = "readPage" THEN "readPage"
                                ELSE "allocatePage",
                               last'.file, last'.pageNo>>) = 1]_vars

\* C18 witness: a readPage miss in a full pool of two has written back and
\* replaced one page and left the other in place.
C18_Witness ==
    /\ last.op = "readPage" /\ last.exc = "none" /\ ~last.hit
    /\ Cardinality(hashTable) = 2 /\ Len(last.io) = 2
    /\ \A v \in last.victim : bufDescTable[v].pinCnt = 1 /\ bufDescTable[v].refbit

\* C19: BadBuffer is unreachable for a real file: no call ends with
\* BadBuffer and in every reachable state flushFile(f) of a file f does not
\* raise it, because no invalid descriptor is tagged with a file.
C19_NoBadBuffer ==
    /\ last.exc # "BadBuffer"
    /\ \A i \in Frames : ~bufDescTable[i].valid => bufDescTable[i].file \notin Files
    /\ \A file \in Files : flushFile(Now, file, 0).exc # "BadBuffer"

\* C19 witness: flushFile has gone over a frame that once held a page and is
\* invalid, and flushed a frame after it.
C19_Witness ==
    /\ last.op = "flushFile" /\ last.exc = "none"
    /\ \E i \in Frames, j \in last.cleared :
          /\ i < j /\ i \notin last.cleared
          /\ ~bufDescTable[i].valid /\ bufPool[i] # EmptyPage

\* C20: allocPage is all-or-nothing with respect to the file: an allocPage
\* that raises BufferExceeded has allocated no page in the file, and every
\* page file.allocatePage handed out during an allocPage is resident and
\* pinned when the call ends.
C20_AllocPageAllOrNothing ==
    last.op = "allocPage" =>
       /\ last.exc = "BufferExceeded" =>
             Count(last.io, <<"allocatePage", last.file, last.pageNo>>) = 0
       /\ Count(last.io, <<"allocatePage", last.file, last.pageNo>>) > 0 =>
             \E i \in Frames : /\ bufDescTable[i].valid
                               /\ bufDescTable[i].file = last.file
                               /\ bufDescTable[i].pageNo = last.pageNo
                               /\ bufDescTable[i].pinCnt > 0

=============================================================================
